---- MODULE Spec2Model ----
(***************************************************************************)
(* A model of lmgec.py: grammatical error correction of tokenized          *)
(* sentences by greedy, language-model driven single-token edits.          *)
(*                                                                         *)
(* Strings are sequences of one-character strings, so that the case        *)
(* conversions, split and join of the program are computed rather than     *)
(* assumed.  A sentence is a sequence of tokens (strings).  Token          *)
(* positions are 1-based here (tok.i + 1).  Language-model scores are      *)
(* exact rationals [lp, n] standing for lp / n.                            *)
(***************************************************************************)
EXTENDS Integers, Sequences, FiniteSets

VARIABLES
    input,        \* the lines of args.input_sents, fixed for a run
    threshold,    \* args.threshold, as a fraction [num, den]
    lm,           \* the loaded language model (res_dict["lm"])
    seed,         \* the string hash seed of the process: it fixes set iteration order
    i,            \* number of input lines taken by the for loop so far
    pc,           \* "read" | "search" | "done" | "crashed"
    sent,         \* main's variable sent: the token list of the current line
    upper,        \* main's variable upper
    has_errors,   \* main's variable has_errors
    out,          \* the lines written to out_sents so far
    prev,         \* the argument of the last processSent call of this line (<<>>: none yet)
    seen,         \* the sentences passed to processSent so far for this line
    iter          \* parity of the number of while-loop iterations run for this line

vars == <<input, threshold, lm, seed, i, pc, sent, upper, has_errors, out, prev, seen, iter>>

(***************************************************************************)
(* Characters and the str methods the program uses.                        *)
(***************************************************************************)
Lowercase == <<"a", "b", "c", "d", "e", "f", "g", "h", "i", "j", "k", "l", "m", "n", "o", "p", "q", "r", "s", "t", "u", "v", "w", "x", "y", "z">>
Uppercase == <<"A", "B", "C", "D", "E", "F", "G", "H", "I", "J", "K", "L", "M", "N", "O", "P", "Q", "R", "S", "T", "U", "V", "W", "X", "Y", "Z">>

IsLowerCh(c) == \E k \in DOMAIN Lowercase : Lowercase[k] = c
IsUpperCh(c) == \E k \in DOMAIN Uppercase : Uppercase[k] = c
IsSpaceCh(c) == c \in {" ", "\n", "\t"}

\* str.upper() / str.lower() on one character
UpperCh(c) == IF IsLowerCh(c) THEN Uppercase[CHOOSE k \in DOMAIN Lowercase : Lowercase[k] = c] ELSE c
LowerCh(c) == IF IsUpperCh(c) THEN Lowercase[CHOOSE k \in DOMAIN Uppercase : Uppercase[k] = c] ELSE c

str_upper(s) == [k \in DOMAIN s |-> UpperCh(s[k])]
str_lower(s) == [k \in DOMAIN s |-> LowerCh(s[k])]

\* str.isupper(): at least one cased character and no lowercase character
str_isupper(s) ==
    /\ \E k \in DOMAIN s : IsUpperCh(s[k])
    /\ \A k \in DOMAIN s : ~IsLowerCh(s[k])

\* str.isalpha(): non-empty and letters only
str_isalpha(s) ==
    /\ s # <<>>
    /\ \A k \in DOMAIN s : IsLowerCh(s[k]) \/ IsUpperCh(s[k])

\* str.strip().split(): the maximal runs of non-whitespace characters
RECURSIVE SplitFrom(_, _, _)
SplitFrom(s, cur, acc) ==
    IF s = <<>>
    THEN IF cur = <<>> THEN acc ELSE Append(acc, cur)
    ELSE IF IsSpaceCh(Head(s))
         THEN SplitFrom(Tail(s), <<>>, IF cur = <<>> THEN acc ELSE Append(acc, cur))
         ELSE SplitFrom(Tail(s), Append(cur, Head(s)), acc)

str_split(s) == SplitFrom(s, <<>>, <<>>)

\* " ".join(toks)
RECURSIVE str_join(_)
str_join(toks) ==
    IF toks = <<>> THEN <<>>
    ELSE IF Len(toks) = 1 THEN toks[1]
    ELSE toks[1] \o <<" ">> \o str_join(Tail(toks))

(***************************************************************************)
(* Words.                                                                  *)
(***************************************************************************)
w_the == <<"t", "h", "e">>
w_a == <<"a">>
w_an == <<"a", "n">>
w_about == <<"a", "b", "o", "u", "t">>
w_at == <<"a", "t">>
w_by == <<"b", "y">>
w_for == <<"f", "o", "r">>
w_from == <<"f", "r", "o", "m">>
w_in == <<"i", "n">>
w_of == <<"o", "f">>
w_on == <<"o", "n">>
w_to == <<"t", "o">>
w_with == <<"w", "i", "t", "h">>
w_cat == <<"c", "a", "t">>
w_cats == <<"c", "a", "t", "s">>
w_teh == <<"t", "e", "h">>
w_Ted == <<"T", "e", "d">>

(***************************************************************************)
(* loadResources: the two closed word sets of the program, and bounded     *)
(* stand-ins for the external collaborators (spellchecker, inflection      *)
(* database, tagger, language model).                                      *)
(***************************************************************************)
det == {<<>>, w_the, w_a, w_an}

prep == {<<>>, w_about, w_at, w_by, w_for, w_from, w_in, w_of, w_on, w_to, w_with}

\* Hunspell.spell: the dictionary accepts its words in any capitalisation
Dictionary == (det \cup prep \cup {w_cat, w_cats, str_lower(w_Ted)}) \ {<<>>}
gb_spell(word) == str_lower(word) \in Dictionary

\* Hunspell.suggest: an ordered list of suggestions, empty when there is none
gb_suggest(word) == IF word = w_teh THEN <<w_the, w_Ted>> ELSE <<>>

\* loadWordFormDict: form_dict[word] = set([word] + forms)
gb_infl == [word \in {w_cat} |-> {word} \cup {w_cats}]

\* the tagger's lemma of a token
lemma_(tok) == IF str_lower(tok) = w_cats THEN w_cat ELSE str_lower(tok)

\* The language models a run may load.  Each gives a word a negative
\* log-probability (in tenths) by its frequency class, or by the bigram it ends.
Models ==
    { [hi |-> {w_the, w_a, w_cat, w_cats}, mid |-> {w_on}, rare |-> {w_in}, bi |-> {}],
      [hi |-> {w_Ted, w_cats, w_an}, mid |-> {w_the, w_cat}, rare |-> {w_a}, bi |-> {<<w_on, w_cat>>}] }

WordLogProb(m, before, word) ==
    IF <<before, word>> \in m.bi THEN -5
    ELSE IF word \in m.hi THEN -10
    ELSE IF word \in m.mid THEN -24
    ELSE IF word \in m.rare THEN -29
    ELSE -30

RECURSIVE WordsLogProb(_, _, _)
WordsLogProb(m, before, words) ==
    IF words = <<>> THEN -10     \* the end-of-sentence event
    ELSE WordLogProb(m, before, Head(words)) + WordsLogProb(m, Head(words), Tail(words))

\* kenlm.Model.score(text, bos=True, eos=True): the model splits the text on whitespace
lm_score(m, text) == WordsLogProb(m, <<>>, str_split(text))

\* args.threshold: the default and two other settings
Thresholds == {[num |-> 96, den |-> 100], [num |-> 1, den |-> 1], [num |-> 3, den |-> 2]}

\* The string hash seeds a run may draw
Seeds == {0, 1, 2}

(***************************************************************************)
(* Iteration order of a set of strings: it depends on the hash seed of     *)
(* the process and is the same every time the set is iterated in a run.    *)
(* The orders modelled are the rotations of one enumeration of the set,    *)
(* so that every element comes first under some seed.                      *)
(***************************************************************************)
RECURSIVE SetToSeq(_)
SetToSeq(S) ==
    IF S = {} THEN <<>>
    ELSE LET x == CHOOSE y \in S : TRUE IN <<x>> \o SetToSeq(S \ {x})

Rotate(s, r) == [k \in DOMAIN s |-> s[((k - 1 + r) % Len(s)) + 1]]

IterOrder(S, sd) == Rotate(SetToSeq(S), sd % Cardinality(S))

(***************************************************************************)
(* Insertion-ordered dictionaries: a sequence of [edit, sent] items.       *)
(***************************************************************************)
\* d[key] = value: a new key goes last, a known key keeps its place
DictPut(d, key, value) ==
    IF \E k \in DOMAIN d : d[k].edit = key
    THEN [k \in DOMAIN d |-> IF d[k].edit = key THEN [edit |-> key, sent |-> value] ELSE d[k]]
    ELSE Append(d, [edit |-> key, sent |-> value])

\* d.update(e)
RECURSIVE DictUpdate(_, _)
DictUpdate(d, e) ==
    IF e = <<>> THEN d
    ELSE DictUpdate(DictPut(d, Head(e).edit, Head(e).sent), Tail(e))

(***************************************************************************)
(* generateCands                                                           *)
(***************************************************************************)
\* list(filter(None, new_sent))
FilterEmpty(s) == SelectSeq(s, LAMBDA t : t # <<>>)

\* (variant: the emptiness test of the new sentence left out)
SaveCand_unchecked(edit_dict, edit_id, new_sent) == DictPut(edit_dict, edit_id, new_sent)

\* if new_sent: edit_dict[edit_id] = new_sent
SaveCand(edit_dict, edit_id, new_sent) ==
    IF new_sent # <<>> THEN DictPut(edit_dict, edit_id, new_sent) ELSE edit_dict

RECURSIVE GenLoop(_, _, _, _, _)
GenLoop(tok_id, cands, s, weight, edit_dict) ==
    IF cands = <<>> THEN edit_dict
    ELSE LET cand == Head(cands)
             new_sent == FilterEmpty([s EXCEPT ![tok_id] = cand])
             edit_id == <<tok_id, cand, weight>>
         IN GenLoop(tok_id, Tail(cands), s, weight, SaveCand(edit_dict, edit_id, new_sent))

generateCands(tok_id, cands, s, weight) == GenLoop(tok_id, cands, s, weight, <<>>)

(***************************************************************************)
(* processSent                                                             *)
(***************************************************************************)
\* the four candidate sources of one token, in the order of the code
TokenCands(cand_dict, tok_id, s, weight, sd) ==
    LET tok == s[tok_id]
        spelled ==
            IF str_isalpha(tok) /\ ~gb_spell(tok)
            THEN LET cands == gb_suggest(tok)
                 IN IF cands # <<>>
                    THEN DictUpdate(cand_dict, generateCands(tok_id, cands, s, weight))
                    ELSE cand_dict
            ELSE cand_dict
        morph ==
            IF lemma_(tok) \in DOMAIN gb_infl
            THEN DictUpdate(spelled,
                     generateCands(tok_id, IterOrder(gb_infl[lemma_(tok)], sd), s, weight))
            ELSE spelled
        dets ==
            IF tok \in det
            THEN DictUpdate(morph, generateCands(tok_id, IterOrder(det, sd), s, weight))
            ELSE morph
        preps ==
            IF tok \in prep
            THEN DictUpdate(dets, generateCands(tok_id, IterOrder(prep, sd), s, weight))
            ELSE dets
    IN preps

\* for tok in proc_sent
RECURSIVE CollectCands(_, _, _, _, _)
CollectCands(cand_dict, tok_id, s, weight, sd) ==
    IF tok_id > Len(s) THEN cand_dict
    ELSE CollectCands(TokenCands(cand_dict, tok_id, s, weight, sd), tok_id + 1, s, weight, sd)

\* lm.score(text, bos=True, eos=True) / len(tokens), as the fraction lp / n
AvgProb(m, s) == [inf |-> FALSE, lp |-> lm_score(m, str_join(s)), n |-> Len(s)]

\* float("-inf")
NegInf == [inf |-> TRUE, lp |-> 0, n |-> 1]

\* (variant: the weight applied to the candidate's score instead of the original's)
Eligible_weighted_cand(cand_prob, weight, orig_prob) ==
    cand_prob.lp * weight.num * orig_prob.n > weight.den * orig_prob.lp * cand_prob.n

\* (variant: >= in place of >)
Eligible_or_equal(cand_prob, weight, orig_prob) ==
    cand_prob.lp * weight.den * orig_prob.n >= weight.num * orig_prob.lp * cand_prob.n

\* cand_prob > edit[-1] * orig_prob
Eligible(cand_prob, weight, orig_prob) ==
    cand_prob.lp * weight.den * orig_prob.n > weight.num * orig_prob.lp * cand_prob.n

\* (variant: >= in place of >, so a later equal score displaces the best)
BeatsBest_or_equal(cand_prob, best_prob) ==
    best_prob.inf \/ cand_prob.lp * best_prob.n >= best_prob.lp * cand_prob.n

\* cand_prob > best_prob
BeatsBest(cand_prob, best_prob) ==
    best_prob.inf \/ cand_prob.lp * best_prob.n > best_prob.lp * cand_prob.n

\* for edit, cand_sent in cand_dict.items()
RECURSIVE SelectLoop(_, _, _, _)
SelectLoop(cand_dict, m, orig_prob, best) ==
    IF cand_dict = <<>> THEN best
    ELSE LET edit == Head(cand_dict).edit
             cand_sent == Head(cand_dict).sent
             cand_prob == AvgProb(m, cand_sent)
         IN SelectLoop(Tail(cand_dict), m, orig_prob,
                IF Eligible(cand_prob, edit[3], orig_prob) /\ BeatsBest(cand_prob, best.best_prob)
                THEN [best_prob |-> cand_prob, best_sent |-> cand_sent]
                ELSE best)

processSent(s, m, weight, sd) ==
    LET orig_prob == AvgProb(m, s)
        cand_dict == CollectCands(<<>>, 1, s, weight, sd)
        best == SelectLoop(cand_dict, m, orig_prob, [best_prob |-> NegInf, best_sent |-> <<>>])
    IN IF best.best_sent # <<>>
       THEN [sent |-> best.best_sent, has_errors |-> TRUE]
       ELSE [sent |-> s, has_errors |-> FALSE]

(***************************************************************************)
(* main                                                                    *)
(***************************************************************************)
\* the lines an input file may hold
line_blank == <<"\n">>
line_teh == <<"a", " ", "t", "e", "h", "\n">>
line_TEH == <<"T", "E", "H", " ", "C", "A", "T", "\n">>
line_in == <<" ", "i", "n", " ", " ", "c", "a", "t", " ", "\n">>
line_the == <<"t", "h", "e">>
line_Cats == <<"C", "a", "t", "s", " ", "o", "n", "\n">>

Lines == {line_blank, line_teh, line_TEH, line_in, line_the, line_Cats}

MaxLines == 2

Inputs == UNION {[1..n -> Lines] : n \in 1..MaxLines}

\* (variant: an empty line skipped without writing)
WriteBlank_skipped(o) == o

\* out_sents.write("\n") for an empty line
WriteBlank(o) == Append(o, <<"\n">>)

\* (variant: str.capitalize(), which also lowercases the rest of the line)
PostProcess_capitalize(s, up) ==
    LET joined == str_join(s)
        capped == <<UpperCh(joined[1])>> \o str_lower(Tail(joined))
    IN IF up THEN str_upper(capped) ELSE capped

\* " ".join(sent); sent[0].upper() + sent[1:]; sent.upper() if upper
PostProcess(s, up) ==
    LET joined == str_join(s)
        capped == <<UpperCh(joined[1])>> \o Tail(joined)
    IN IF up THEN str_upper(capped) ELSE capped

Init ==
    /\ input \in Inputs
    /\ threshold \in Thresholds
    /\ lm \in Models
    /\ seed \in Seeds
    /\ i = 0
    /\ pc = "read"
    /\ sent = <<>>
    /\ upper = FALSE
    /\ has_errors = FALSE
    /\ out = <<>>
    /\ prev = <<>>
    /\ seen = {}
    /\ iter = 0

\* for sent in sents: ... up to the while loop (or the continue of an empty line)
ReadLine ==
    /\ pc = "read"
    /\ i < Len(input)
    /\ LET line == input[i + 1]
           up == str_isupper(line)
           toks == str_split(IF up THEN str_lower(line) ELSE line)
       IN /\ i' = i + 1
          /\ upper' = up
          /\ sent' = toks
          /\ prev' = <<>>
          /\ seen' = {}
          /\ iter' = 0
          /\ IF toks = <<>>
             THEN /\ out' = WriteBlank(out)
                  /\ pc' = "read"
                  /\ has_errors' = has_errors
             ELSE /\ out' = out
                  /\ pc' = "search"
                  /\ has_errors' = TRUE
    /\ UNCHANGED <<input, threshold, lm, seed>>

\* one iteration of: while has_errors: sent, has_errors = processSent(...)
Sweep ==
    /\ pc = "search"
    /\ has_errors
    /\ LET r == processSent(sent, lm, threshold, seed)
       IN /\ sent' = r.sent
          /\ has_errors' = r.has_errors
    /\ prev' = sent
    /\ seen' = seen \cup {sent}
    /\ iter' = 1 - iter
    /\ UNCHANGED <<input, threshold, lm, seed, i, pc, upper, out>>

\* a collaborator call of processSent raises: nothing catches it, the run ends
SweepRaises ==
    /\ pc = "search"
    /\ has_errors
    /\ pc' = "crashed"
    /\ UNCHANGED <<input, threshold, lm, seed, i, sent, upper, has_errors, out, prev, seen, iter>>

\* the while loop has ended: join, restore case, write the line
WriteLine ==
    /\ pc = "search"
    /\ ~has_errors
    /\ out' = Append(out, PostProcess(sent, upper) \o <<"\n">>)
    /\ pc' = "read"
    /\ UNCHANGED <<input, threshold, lm, seed, i, sent, upper, has_errors, prev, seen, iter>>

\* the input is exhausted
Finish ==
    /\ pc = "read"
    /\ i = Len(input)
    /\ pc' = "done"
    /\ UNCHANGED <<input, threshold, lm, seed, i, sent, upper, has_errors, out, prev, seen, iter>>

Next == ReadLine \/ Sweep \/ SweepRaises \/ WriteLine \/ Finish

Spec == Init /\ [][Next]_vars

\* WF_vars(Sweep), with ENABLED <<Sweep>>_vars written out: a sweep is possible
\* exactly while the while loop runs, and it always changes iter.
SweepFairness == []<>(~(pc = "search" /\ has_errors)) \/ []<><<Sweep>>_vars

\* The interpreter keeps running the loop it is in; a collaborator need never fail.
FairSpec ==
    Spec /\ WF_vars(ReadLine) /\ WF_vars(WriteLine) /\ WF_vars(Finish) /\ SweepFairness

(***************************************************************************)
(* Properties.                                                             *)
(***************************************************************************)
\* the candidate dictionary processSent builds for sentence s under weight w
Hyps(s, w) == CollectCands(<<>>, 1, s, w, seed)

\* p > q and p > w * q on scores lp / n
Greater(p, q) == p.lp * q.n > q.lp * p.n
Exceeds(p, w, q) == p.lp * w.den * q.n > w.num * q.lp * p.n
WeightLeq(w1, w2) == w1.num * w2.den <= w2.num * w1.den

\* for every weight w, the edits (position, replacement) of the current sentence
\* whose hypothesis is eligible in a sweep under w
EligibleByWeight ==
    LET H == Hyps(sent, threshold)
        base == AvgProb(lm, sent)
        scores == [k \in DOMAIN H |-> AvgProb(lm, H[k].sent)]
    IN [w \in Thresholds |->
           {<<H[k].edit[1], H[k].edit[2]>> :
               k \in {j \in DOMAIN H : Eligible(scores[j], w, base)}}]

Blank(line) == str_split(line) = <<>>

\* C1: every search of a line ends after finitely many sweeps, for any model and
\* any threshold: a line being searched is eventually written (the run being
\* cut short by a raising collaborator apart).
C1_SearchConverges == (pc = "search") ~> (pc = "read" \/ pc = "crashed")

\* C2 (as stated): raising the weight can only shrink the set of eligible
\* hypotheses of a sweep: w1 <= w2 implies eligible(w2) \subseteq eligible(w1).
C2_RaisingWeightShrinks ==
    pc = "search" =>
        LET E == EligibleByWeight
        IN \A w1, w2 \in Thresholds : WeightLeq(w1, w2) => E[w2] \subseteq E[w1]

\* C2 (amended): with the negative scores the model returns, raising the weight
\* can only grow the set of eligible hypotheses of a sweep: w1 <= w2 implies
\* eligible(w1) \subseteq eligible(w2).
C2_RaisingWeightGrows ==
    pc = "search" =>
        LET E == EligibleByWeight
        IN \A w1, w2 \in Thresholds : WeightLeq(w1, w2) => E[w1] \subseteq E[w2]

\* a sweep in which a higher weight makes strictly more hypotheses eligible
C2_Witness ==
    /\ pc = "search"
    /\ has_errors
    /\ LET E == EligibleByWeight
       IN \E w1, w2 \in Thresholds :
             /\ WeightLeq(w1, w2)
             /\ E[w1] # {}
             /\ E[w1] # E[w2]

\* C3: the result of a sweep does not depend on the order in which the sets of
\* candidates are enumerated: every hash seed gives the sweep the same result.
C3_OrderIndependent ==
    (pc = "search" /\ has_errors) =>
        \A sd \in Seeds :
            processSent(sent, lm, threshold, sd) = processSent(sent, lm, threshold, seed)

\* C4: every hypothesis of a sweep has at least one token, the deletion of a
\* sole token is not among them, and the current sentence is never empty.
C4_NoEmptyHypothesis ==
    pc = "search" =>
        LET H == Hyps(sent, threshold)
        IN /\ Len(sent) >= 1
           /\ \A k \in DOMAIN sent : sent[k] # <<>>
           /\ \A k \in DOMAIN H : Len(H[k].sent) >= 1
           /\ Len(sent) = 1 => \A k \in DOMAIN H : H[k].edit[2] # <<>>

\* after an accepted edit, a one-token sentence whose token is a determiner
C4_Witness ==
    /\ pc = "search"
    /\ has_errors
    /\ prev # <<>>
    /\ Len(sent) = 1
    /\ sent[1] \in det

\* C5: one output line per input line taken, in order: the output holds a line
\* for every line the loop has finished, a blank one exactly where the input
\* line has no tokens, as many as the input when the run is done, and no
\* search is run for a line without tokens.
C5_LineAlignment ==
    /\ Len(out) = IF pc \in {"search", "crashed"} THEN i - 1 ELSE i
    /\ \A k \in DOMAIN out :
          /\ (out[k] = <<"\n">>) <=> Blank(input[k])
          /\ \A c \in DOMAIN out[k] : (out[k][c] = "\n") <=> (c = Len(out[k]))
    /\ pc = "done" => Len(out) = Len(input)
    /\ pc \in {"search", "crashed"} => ~Blank(input[i])

\* a finished run of two lines, the second one blank
C5_Witness ==
    /\ pc = "done"
    /\ Len(out) = 2
    /\ ~Blank(input[1])
    /\ Blank(input[2])

\* C6: the flag upper is that of the input line for the whole search, an
\* all-uppercase line is searched in lower case and written without any
\* lowercase letter, and any other line is written as the search left it but
\* for its first character, which is capitalized.
C6_CaseRestoration ==
    /\ pc = "search" => upper = str_isupper(input[i])
    /\ (pc = "search" /\ prev = <<>> /\ upper) => sent = str_split(str_lower(input[i]))
    /\ (pc = "search" /\ prev = <<>> /\ ~upper) => sent = str_split(input[i])
    /\ \A k \in DOMAIN out :
          str_isupper(input[k]) => \A c \in DOMAIN out[k] : ~IsLowerCh(out[k][c])
    /\ (pc = "read" /\ i >= 1 /\ sent # <<>> /\ ~upper) =>
          LET joined == str_join(sent)
          IN /\ Len(out[i]) = Len(joined) + 1
             /\ out[i][1] = UpperCh(joined[1])
             /\ \A c \in 2..Len(joined) : out[i][c] = joined[c]

\* an all-uppercase line written after an edit was accepted
C6_Witness ==
    /\ pc = "read"
    /\ i >= 1
    /\ upper
    /\ sent # <<>>
    /\ sent # str_split(str_lower(input[i]))

\* C7: a failing search never stops the batch: the run is never left halted
\* by a failure with input lines unwritten.
C7_FailureIsolated == ~(pc = "crashed" /\ Len(out) < Len(input))

\* C8: a sweep returns improved = TRUE iff some hypothesis is eligible; it then
\* returns an eligible hypothesis of maximal score, the first such in
\* iteration order; otherwise it returns its input.
C8_AcceptanceRule ==
    (pc = "search" /\ prev # <<>>) =>
        LET H == Hyps(prev, threshold)
            base == AvgProb(lm, prev)
            scores == [k \in DOMAIN H |-> AvgProb(lm, H[k].sent)]
            P(k) == scores[k]
            E == {k \in DOMAIN H : Exceeds(P(k), threshold, base)}
        IN /\ has_errors <=> E # {}
           /\ has_errors =>
                 \E k \in E :
                    /\ sent = H[k].sent
                    /\ \A j \in E : ~Greater(P(j), P(k))
                    /\ \A j \in E : j < k => Greater(P(k), P(j))
           /\ ~has_errors => sent = prev

\* an accepted sweep in which two different hypotheses tied for the best score
C8_Witness ==
    /\ pc = "search"
    /\ prev # <<>>
    /\ has_errors
    /\ LET H == Hyps(prev, threshold)
       IN \E j, k \in DOMAIN H :
             /\ j < k
             /\ H[j].sent = sent
             /\ H[k].sent # sent
             /\ ~Greater(AvgProb(lm, H[j].sent), AvgProb(lm, H[k].sent))
             /\ ~Greater(AvgProb(lm, H[k].sent), AvgProb(lm, H[j].sent))

\* C9: an accepted sweep returns a sentence different from its input, for any
\* threshold.
C9_AcceptedSweepChanges ==
    (pc = "search" /\ prev # <<>> /\ has_errors) => sent # prev

\* C10: with a weight in (0, 1] and negative scores, an accepted sweep strictly
\* raises the score of the current sentence, never returns to a sentence the
\* line has been before, and never adds a token.
C10_StrictImprovement ==
    ( /\ pc = "search"
      /\ prev # <<>>
      /\ has_errors
      /\ 0 < threshold.num
      /\ threshold.num <= threshold.den
      /\ AvgProb(lm, prev).lp < 0 ) =>
        /\ Greater(AvgProb(lm, sent), AvgProb(lm, prev))
        /\ sent \notin seen
        /\ Len(sent) <= Len(prev)

\* a second accepted sweep in a row under a weight in (0, 1]
C10_Witness ==
    /\ pc = "search"
    /\ has_errors
    /\ threshold.num <= threshold.den
    /\ Cardinality(seen) >= 2

====
